---- MODULE Spec2Model ----
(***************************************************************************)
(* The prefixed store facade of acsl-go/redis (redis.go), over a model of  *)
(* the remote store as the wrapped go-redis client presents it.            *)
(*                                                                         *)
(* Strings (keys, prefixes, raw values) are sequences of one-character     *)
(* strings, so that concatenation, the trailing separator and the JSON     *)
(* text of a value are computed, not assumed.                              *)
(***************************************************************************)
EXTENDS Integers, Sequences, FiniteSets, TLC

\* ------------------------------------------------------------------ bounds
MaxTTL == 2
MaxCount == 1

\* ----------------------------------------------------------------- strings
Sep == <<":">>
Empty == <<>>
Quote == "\""
Backslash == "\\"

\* cfg.Prefix as the configuration may give it: none, plain, or already
\* ending in the separator.
CfgPrefixes == {Empty, <<"p">>, <<"p", ":">>}

\* The logical keys callers pass.
Keys == {<<"k">>}

\* Hash fields, set / sorted-set / bloom members.
Fields == {"f"}
Members == {"a"}
Score == 5

EndsWithSep(s) == Len(s) > 0 /\ s[Len(s)] = Sep[1]

\* A variant of NewClient that leaves a prefix ending with the separator alone.
NewClientPrefixKeepSep(cfgPfx) ==
    IF cfgPfx # Empty /\ ~EndsWithSep(cfgPfx) THEN cfgPfx \o Sep ELSE cfgPfx

\* NewClient, lines 36-39: a non-empty prefix always gets the separator.
NewClientPrefix(cfgPfx) ==
    IF cfgPfx # Empty THEN cfgPfx \o Sep ELSE cfgPfx

\* ------------------------------------------------------- strconv (decimal)
Digits == <<"0", "1", "2", "3", "4", "5", "6", "7", "8", "9">>

IsDigit(c) == \E i \in 1..Len(Digits) : Digits[i] = c

DigitVal(c) == (CHOOSE i \in 1..Len(Digits) : Digits[i] = c) - 1

RECURSIVE UItoa(_)
UItoa(n) ==
    IF n < Len(Digits) THEN <<Digits[n + 1]>>
    ELSE UItoa(n \div Len(Digits)) \o <<Digits[(n % Len(Digits)) + 1]>>

Itoa(n) == IF n < 0 THEN <<"-">> \o UItoa(0 - n) ELSE UItoa(n)

RECURSIVE UAtoi(_)
UAtoi(s) ==
    IF Len(s) = 1 THEN DigitVal(s[1])
    ELSE UAtoi(SubSeq(s, 1, Len(s) - 1)) * Len(Digits) + DigitVal(s[Len(s)])

AllDigits(s) == Len(s) > 0 /\ \A i \in 1..Len(s) : IsDigit(s[i])

\* strconv.ParseInt(str, 10, 64): an optional sign, then digits only.
ParseIntOk(s) ==
    \/ AllDigits(s)
    \/ Len(s) > 1 /\ s[1] \in {"-", "+"} /\ AllDigits(Tail(s))

ParseInt(s) ==
    IF s[1] = "-" THEN 0 - UAtoi(Tail(s))
    ELSE IF s[1] = "+" THEN UAtoi(Tail(s))
    ELSE UAtoi(s)

\* --------------------------------------------------------- encoding/json
\* A structured value: null, a boolean, an integer, a string, or a value
\* json.Marshal refuses ("bad": a channel, a NaN).
Val(t, b, n, s) == [t |-> t, b |-> b, n |-> n, s |-> s]
Null == Val("null", FALSE, 0, Empty)
BoolV(b) == Val("bool", b, 0, Empty)
NumV(n) == Val("num", FALSE, n, Empty)
StrV(s) == Val("str", FALSE, 0, s)
BadV == Val("bad", FALSE, 0, Empty)

Values == {Null, BoolV(FALSE), NumV(0), StrV(Empty), StrV(<<Quote>>), BadV}

NullText == <<"n", "u", "l", "l">>
TrueText == <<"t", "r", "u", "e">>
FalseText == <<"f", "a", "l", "s", "e">>

RECURSIVE Escape(_)
Escape(s) ==
    IF s = Empty THEN Empty
    ELSE (IF Head(s) \in {Quote, Backslash} THEN <<Backslash, Head(s)>> ELSE <<Head(s)>>)
         \o Escape(Tail(s))

\* The body of a JSON string literal is well formed: every backslash
\* escapes a quote or a backslash, no bare quote.
RECURSIVE BodyOk(_)
BodyOk(s) ==
    IF s = Empty THEN TRUE
    ELSE IF Head(s) = Backslash
         THEN Len(s) > 1 /\ s[2] \in {Quote, Backslash} /\ BodyOk(Tail(Tail(s)))
         ELSE Head(s) # Quote /\ BodyOk(Tail(s))

RECURSIVE Unescape(_)
Unescape(s) ==
    IF s = Empty THEN Empty
    ELSE IF Head(s) = Backslash THEN <<s[2]>> \o Unescape(Tail(Tail(s)))
         ELSE <<Head(s)>> \o Unescape(Tail(s))

MarshalOk(v) == v.t # "bad"

Marshal(v) ==
    CASE v.t = "null" -> NullText
      [] v.t = "bool" -> (IF v.b THEN TrueText ELSE FalseText)
      [] v.t = "num" -> Itoa(v.n)
      [] v.t = "str" -> <<Quote>> \o Escape(v.s) \o <<Quote>>
      [] OTHER -> Empty

IsStringLit(d) ==
    Len(d) >= 2 /\ d[1] = Quote /\ d[Len(d)] = Quote /\ BodyOk(SubSeq(d, 2, Len(d) - 1))

IsNumberLit(d) == AllDigits(d) \/ (Len(d) > 1 /\ d[1] = "-" /\ AllDigits(Tail(d)))

UnmarshalOk(d) ==
    d \in {NullText, TrueText, FalseText} \/ IsStringLit(d) \/ IsNumberLit(d)

Unmarshal(d) ==
    CASE d = NullText -> Null
      [] d = TrueText -> BoolV(TRUE)
      [] d = FalseText -> BoolV(FALSE)
      [] IsStringLit(d) -> StrV(Unescape(SubSeq(d, 2, Len(d) - 1)))
      [] OTHER -> NumV(ParseInt(d))

\* ------------------------------------------------------------- the store
\* What the remote store holds under one key, as the go-redis commands the
\* facade calls observe it. ttl = 0: no expiration; ttl > 0: seconds left.
Absent == [kind |-> "none", s |-> Empty, h |-> {}, m |-> {}, z |-> {}, ttl |-> 0]
StringE(d, ttl) == [Absent EXCEPT !.kind = "string", !.s = d, !.ttl = ttl]

\* Every key a command can name: the caller's bare keys and their prefixed forms.
AllStoreKeys == Keys \cup {NewClientPrefix(p) \o k : p \in CfgPrefixes, k \in Keys}

Present(st, k) == st[k].kind # "none"

\* A command's reply: the store after it, the client's error ("ok", "nil" for
\* goredis.Nil, "err" for any other), and the typed result.
Reply(st, e, b, s, n, c) == [st |-> st, e |-> e, b |-> b, s |-> s, n |-> n, c |-> c]
ReplyOk(st) == Reply(st, "ok", FALSE, Empty, 0, {})
ReplyErr(st) == Reply(st, "err", FALSE, Empty, 0, {})
ReplyNil(st) == Reply(st, "nil", FALSE, Empty, 0, {})
ReplyBool(st, b) == Reply(st, "ok", b, Empty, 0, {})
ReplyInt(st, n) == Reply(st, "ok", FALSE, Empty, n, {})
ReplyStr(st, s) == Reply(st, "ok", FALSE, s, 0, {})
ReplyColl(st, c) == Reply(st, "ok", FALSE, Empty, 0, c)

\* f: the transport fails (the command does not run). A key of another type
\* is the server's WRONGTYPE error.
RedisGet(st, k, f) ==
    IF f THEN ReplyErr(st)
    ELSE IF st[k].kind = "none" THEN ReplyNil(st)
    ELSE IF st[k].kind = "string" THEN ReplyStr(st, st[k].s)
    ELSE ReplyErr(st)

\* SET key value [EX ttl]: replaces whatever the key held, and its expiration.
RedisSet(st, k, d, ttl, f) ==
    IF f THEN ReplyErr(st)
    ELSE ReplyOk([st EXCEPT ![k] = StringE(d, IF ttl > 0 THEN ttl ELSE 0)])

\* SETNX / SET NX: writes only an absent key; a refusal is (false, nil).
RedisSetNX(st, k, d, ttl, f) ==
    IF f THEN ReplyErr(st)
    ELSE IF Present(st, k) THEN ReplyBool(st, FALSE)
    ELSE ReplyBool([st EXCEPT ![k] = StringE(d, IF ttl > 0 THEN ttl ELSE 0)], TRUE)

RedisDel(st, k, f) ==
    IF f THEN ReplyErr(st)
    ELSE ReplyInt([st EXCEPT ![k] = Absent], IF Present(st, k) THEN 1 ELSE 0)

\* EXPIRE key seconds: false on an absent key (no error); a non-positive
\* time deletes the key.
RedisExpire(st, k, ttl, f) ==
    IF f THEN ReplyErr(st)
    ELSE IF ~Present(st, k) THEN ReplyBool(st, FALSE)
    ELSE IF ttl <= 0 THEN ReplyBool([st EXCEPT ![k] = Absent], TRUE)
    ELSE ReplyBool([st EXCEPT ![k].ttl = ttl], TRUE)

\* TTL key: an integer reply, never Nil: -2 for an absent key, -1 for a key
\* with no expiration, else the seconds left (n stands for n * time.Second,
\* -1 and -2 for time.Duration(-1) and time.Duration(-2)).
NoKeyTTL == 0 - 2
NoExpiryTTL == 0 - 1

RedisTTL(st, k, f) ==
    IF f THEN ReplyErr(st)
    ELSE IF ~Present(st, k) THEN ReplyInt(st, NoKeyTTL)
    ELSE IF st[k].ttl = 0 THEN ReplyInt(st, NoExpiryTTL)
    ELSE ReplyInt(st, st[k].ttl)

\* INCR / DECR: an absent key counts from 0; the expiration is kept.
RedisIncrBy(st, k, delta, f) ==
    IF f THEN ReplyErr(st)
    ELSE IF st[k].kind = "none"
         THEN ReplyInt([st EXCEPT ![k] = StringE(Itoa(delta), 0)], delta)
    ELSE IF st[k].kind = "string" /\ IsNumberLit(st[k].s)
         THEN ReplyInt([st EXCEPT ![k].s = Itoa(ParseInt(st[k].s) + delta)],
                       ParseInt(st[k].s) + delta)
    ELSE ReplyErr(st)

\* ---- hashes: h is the set of <<field, value>> pairs
HasField(e, fld) == \E p \in e.h : p[1] = fld
FieldVal(e, fld) == (CHOOSE p \in e.h : p[1] = fld)[2]
PutField(e, fld, val) ==
    [e EXCEPT !.kind = "hash", !.h = {p \in e.h : p[1] # fld} \cup {<<fld, val>>}]
HashOrNone(e) == e.kind \in {"none", "hash"}

RedisHSet(st, k, fld, val, f) ==
    IF f \/ ~HashOrNone(st[k]) THEN ReplyErr(st)
    ELSE ReplyInt([st EXCEPT ![k] = PutField(st[k], fld, val)],
                  IF HasField(st[k], fld) THEN 0 ELSE 1)

RedisHSetNX(st, k, fld, val, f) ==
    IF f \/ ~HashOrNone(st[k]) THEN ReplyErr(st)
    ELSE IF HasField(st[k], fld) THEN ReplyBool(st, FALSE)
    ELSE ReplyBool([st EXCEPT ![k] = PutField(st[k], fld, val)], TRUE)

RedisHGet(st, k, fld, f) ==
    IF f \/ ~HashOrNone(st[k]) THEN ReplyErr(st)
    ELSE IF ~HasField(st[k], fld) THEN ReplyNil(st)
    ELSE ReplyStr(st, FieldVal(st[k], fld))

RedisHGetAll(st, k, f) ==
    IF f \/ ~HashOrNone(st[k]) THEN ReplyErr(st) ELSE ReplyColl(st, st[k].h)

RedisHKeys(st, k, f) ==
    IF f \/ ~HashOrNone(st[k]) THEN ReplyErr(st)
    ELSE ReplyColl(st, {p[1] : p \in st[k].h})

RedisHLen(st, k, f) ==
    IF f \/ ~HashOrNone(st[k]) THEN ReplyErr(st)
    ELSE ReplyInt(st, Cardinality(st[k].h))

RedisHExists(st, k, fld, f) ==
    IF f \/ ~HashOrNone(st[k]) THEN ReplyErr(st)
    ELSE ReplyBool(st, HasField(st[k], fld))

\* HDEL: a hash left with no field is removed.
RedisHDel(st, k, fld, f) ==
    IF f \/ ~HashOrNone(st[k]) THEN ReplyErr(st)
    ELSE LET rest == {p \in st[k].h : p[1] # fld}
         IN ReplyInt([st EXCEPT ![k] = IF rest = {} THEN Absent ELSE [st[k] EXCEPT !.h = rest]],
                     IF HasField(st[k], fld) THEN 1 ELSE 0)

RedisHIncrBy(st, k, fld, delta, f) ==
    IF f \/ ~HashOrNone(st[k]) THEN ReplyErr(st)
    ELSE IF ~HasField(st[k], fld)
         THEN ReplyInt([st EXCEPT ![k] = PutField(st[k], fld, Itoa(delta))], delta)
    ELSE IF IsNumberLit(FieldVal(st[k], fld))
         THEN LET n == ParseInt(FieldVal(st[k], fld)) + delta
              IN ReplyInt([st EXCEPT ![k] = PutField(st[k], fld, Itoa(n))], n)
    ELSE ReplyErr(st)

\* ---- sets: m is the set of members
SetOrNone(e) == e.kind \in {"none", "set"}

RedisSAdd(st, k, ms, f) ==
    IF f \/ ~SetOrNone(st[k]) THEN ReplyErr(st)
    ELSE ReplyInt([st EXCEPT ![k] = [st[k] EXCEPT !.kind = "set", !.m = st[k].m \cup ms]],
                  Cardinality(ms \ st[k].m))

RedisSRem(st, k, ms, f) ==
    IF f \/ ~SetOrNone(st[k]) THEN ReplyErr(st)
    ELSE LET rest == st[k].m \ ms
         IN ReplyInt([st EXCEPT ![k] = IF rest = {} THEN Absent ELSE [st[k] EXCEPT !.m = rest]],
                     Cardinality(st[k].m \cap ms))

RedisSCard(st, k, f) ==
    IF f \/ ~SetOrNone(st[k]) THEN ReplyErr(st) ELSE ReplyInt(st, Cardinality(st[k].m))

RedisSIsMember(st, k, mem, f) ==
    IF f \/ ~SetOrNone(st[k]) THEN ReplyErr(st) ELSE ReplyBool(st, mem \in st[k].m)

RedisSMembers(st, k, f) ==
    IF f \/ ~SetOrNone(st[k]) THEN ReplyErr(st) ELSE ReplyColl(st, st[k].m)

\* ---- sorted sets: z is the set of <<member, score>> pairs
ZSetOrNone(e) == e.kind \in {"none", "zset"}

RedisZAdd(st, k, mem, score, f) ==
    IF f \/ ~ZSetOrNone(st[k]) THEN ReplyErr(st)
    ELSE ReplyInt([st EXCEPT ![k] = [st[k] EXCEPT !.kind = "zset",
                       !.z = {p \in st[k].z : p[1] # mem} \cup {<<mem, score>>}]],
                  IF \E p \in st[k].z : p[1] = mem THEN 0 ELSE 1)

\* ZRANGE key start stop WITHSCORES over a sorted set of at most one member:
\* a negative index counts from the end; rank 0 is in the range or nothing is.
RedisZRangeWithScores(st, k, start, stop, f) ==
    IF f \/ ~ZSetOrNone(st[k]) THEN ReplyErr(st)
    ELSE LET len == Cardinality(st[k].z)
             lo == IF start < 0 THEN (IF start + len < 0 THEN 0 ELSE start + len) ELSE start
             hi == IF stop < 0 THEN stop + len ELSE stop
         IN ReplyColl(st, IF lo <= 0 /\ 0 <= hi THEN st[k].z ELSE {})

\* ---- bloom filters: m is the set of members added (false positives left out)
BloomOrNone(e) == e.kind \in {"none", "bloom"}

RedisBFReserve(st, k, f) ==
    IF f \/ Present(st, k) THEN ReplyErr(st)
    ELSE ReplyOk([st EXCEPT ![k] = [Absent EXCEPT !.kind = "bloom"]])

RedisBFMAdd(st, k, ms, f) ==
    IF f \/ ~BloomOrNone(st[k]) THEN ReplyErr(st)
    ELSE Reply([st EXCEPT ![k] = [st[k] EXCEPT !.kind = "bloom", !.m = st[k].m \cup ms]],
               "ok", ms \ st[k].m # {}, Empty, 0, ms \ st[k].m)

RedisBFMExists(st, k, ms, f) ==
    IF f \/ ~BloomOrNone(st[k]) THEN ReplyErr(st)
    ELSE Reply(st, "ok", ms \cap st[k].m # {}, Empty, 0, ms \cap st[k].m)

\* ------------------------------------------------------------ the facade
VARIABLES
    cfg,      \* Config.Prefix, as configured
    prefix,   \* Client.prefix, as NewClient resolved it
    store,    \* the remote store: store key -> what it holds
    sent,     \* the commands the last operation sent: <<[cmd, key, e]>>
    last,     \* the last public operation: its name, inputs, results, error
    step      \* what the last step was: "init", a public "call", a clock "tick"

vars == <<cfg, prefix, store, sent, last, step>>

\* An error value: nil, ErrNotFound, errors.Wrap(e, label), or an error
\* handed on as the callee produced it.
NoErr == [kind |-> "nil", label |-> ""]
ErrNotFound == [kind |-> "NotFound", label |-> ""]
Wrap(label) == [kind |-> "wrapped", label |-> label]
Unwrapped == [kind |-> "unwrapped", label |-> "strconv.ParseInt"]

Cmd(name, k, e) == [cmd |-> name, key |-> k, e |-> e]

\* What a method leaves behind: the store, the commands sent, its results.
Res(st, cmds, err) ==
    [st |-> st, sent |-> cmds, err |-> err,
     b |-> FALSE, s |-> Empty, n |-> 0, c |-> {}, out |-> Null]

\* ---- inputs
\* A time to live, in seconds: none, or the longest the model follows.
TTLs == {0, MaxTTL}
\* The second command of a combined call can fail only if a time is given.
Fail2(ttl) == IF ttl > 0 THEN BOOLEAN ELSE {FALSE}
\* Raw strings for SetStr / SetNXStr, and field values for the hash writes.
RawStrs == {Empty, <<"x">>}
FieldVals == {<<"1">>, <<"x">>}
Delta == 1
ZRanges == {<<0, 0 - 1>>, <<1, 0 - 1>>}

\* Counters stay within the model's range.
Room(st, k, delta) ==
    (st[k].kind = "string" /\ IsNumberLit(st[k].s))
        => (ParseInt(st[k].s) + delta) \in (0 - MaxCount)..MaxCount

FieldRoom(st, k, fld, delta) ==
    (st[k].kind = "hash" /\ HasField(st[k], fld) /\ IsNumberLit(FieldVal(st[k], fld)))
        => (ParseInt(FieldVal(st[k], fld)) + delta) \in (0 - MaxCount)..MaxCount

\* ---- string / object get-set
\* A variant of Get without the data_str == "" check.
GetCallNoEmptyCheck(st, pfx, key, f) ==
    LET key_str == pfx \o key
        r == RedisGet(st, key_str, f)
        cmds == <<Cmd("GET", key_str, r.e)>>
    IN  IF r.e # "ok"
        THEN (IF r.e = "nil" THEN Res(r.st, cmds, ErrNotFound)
              ELSE Res(r.st, cmds, Wrap("RedisGet")))
        ELSE IF ~UnmarshalOk(r.s) THEN Res(r.st, cmds, Wrap("RedisGet:JSONUnmarshal"))
        ELSE [Res(r.st, cmds, NoErr) EXCEPT !.out = Unmarshal(r.s)]

\* A variant of Get that forgets the prefix.
GetCallBareKey(st, pfx, key, f) ==
    LET key_str == key
        r == RedisGet(st, key_str, f)
        cmds == <<Cmd("GET", key_str, r.e)>>
    IN  IF r.e # "ok"
        THEN (IF r.e = "nil" THEN Res(r.st, cmds, ErrNotFound)
              ELSE Res(r.st, cmds, Wrap("RedisGet")))
        ELSE IF r.s = Empty THEN Res(r.st, cmds, ErrNotFound)
        ELSE IF ~UnmarshalOk(r.s) THEN Res(r.st, cmds, Wrap("RedisGet:JSONUnmarshal"))
        ELSE [Res(r.st, cmds, NoErr) EXCEPT !.out = Unmarshal(r.s)]

\* Get: Nil and an empty payload are both NotFound.
GetCall(st, pfx, key, f) ==
    LET key_str == pfx \o key
        r == RedisGet(st, key_str, f)
        cmds == <<Cmd("GET", key_str, r.e)>>
    IN  IF r.e # "ok"
        THEN (IF r.e = "nil" THEN Res(r.st, cmds, ErrNotFound)
              ELSE Res(r.st, cmds, Wrap("RedisGet")))
        ELSE IF r.s = Empty THEN Res(r.st, cmds, ErrNotFound)
        ELSE IF ~UnmarshalOk(r.s) THEN Res(r.st, cmds, Wrap("RedisGet:JSONUnmarshal"))
        ELSE [Res(r.st, cmds, NoErr) EXCEPT !.out = Unmarshal(r.s)]

\* Expire names the key as the caller gave it.
ExpireCall(st, pfx, key, ttl, f) ==
    LET r == RedisExpire(st, key, ttl, f)
        cmds == <<Cmd("EXPIRE", key, r.e)>>
    IN  IF r.e # "ok" THEN Res(r.st, cmds, Wrap("RedisExpire"))
        ELSE Res(r.st, cmds, NoErr)

SetExCall(st, pfx, key, v, ttl, f) ==
    LET key_str == pfx \o key
    IN  IF ~MarshalOk(v) THEN Res(st, <<>>, Wrap("RedisSetEx:JSONMarshal"))
        ELSE LET data_str == Marshal(v)
                 r == RedisSet(st, key_str, data_str, ttl, f)
                 cmds == <<Cmd("SET", key_str, r.e)>>
             IN  IF r.e # "ok" THEN Res(r.st, cmds, Wrap("RedisSetEx"))
                 ELSE [Res(r.st, cmds, NoErr) EXCEPT !.s = data_str]

\* A variant of SetNXEx that calls Set where the code calls SetNX.
SetNXExCallOverwrite(st, pfx, key, v, ttl, f) ==
    LET key_str == pfx \o key
    IN  IF ~MarshalOk(v) THEN Res(st, <<>>, Wrap("RedisSetNXEx:JSONMarshal"))
        ELSE LET data_str == Marshal(v)
                 r == RedisSet(st, key_str, data_str, ttl, f)
                 cmds == <<Cmd("SET", key_str, r.e)>>
             IN  IF r.e # "ok" THEN Res(r.st, cmds, Wrap("RedisSetNXEx"))
                 ELSE [Res(r.st, cmds, NoErr) EXCEPT !.b = TRUE, !.s = data_str]

SetNXExCall(st, pfx, key, v, ttl, f) ==
    LET key_str == pfx \o key
    IN  IF ~MarshalOk(v) THEN Res(st, <<>>, Wrap("RedisSetNXEx:JSONMarshal"))
        ELSE LET data_str == Marshal(v)
                 r == RedisSetNX(st, key_str, data_str, ttl, f)
                 cmds == <<Cmd("SETNX", key_str, r.e)>>
             IN  IF r.e # "ok"
                 THEN (IF r.e = "nil" THEN Res(r.st, cmds, NoErr)
                       ELSE Res(r.st, cmds, Wrap("RedisSetNXEx")))
                 ELSE IF ~r.b THEN Res(r.st, cmds, NoErr)
                 ELSE [Res(r.st, cmds, NoErr) EXCEPT !.b = TRUE, !.s = data_str]

\* Set: SetEx without the payload.
SetCall(st, pfx, key, v, ttl, f) ==
    [SetExCall(st, pfx, key, v, ttl, f) EXCEPT !.s = Empty]

\* SetNX: SetNXEx without the payload.
SetNXCall(st, pfx, key, v, ttl, f) ==
    [SetNXExCall(st, pfx, key, v, ttl, f) EXCEPT !.s = Empty]

SetNXStrCall(st, pfx, key, v, ttl, f) ==
    LET key_str == pfx \o key
        r == RedisSetNX(st, key_str, v, ttl, f)
        cmds == <<Cmd("SETNX", key_str, r.e)>>
    IN  IF r.e # "ok"
        THEN (IF r.e = "nil" THEN Res(r.st, cmds, NoErr)
              ELSE Res(r.st, cmds, Wrap("RedisSetNX")))
        ELSE IF ~r.b THEN Res(r.st, cmds, NoErr)
        ELSE [Res(r.st, cmds, NoErr) EXCEPT !.b = TRUE]

SetStrCall(st, pfx, key, v, ttl, f) ==
    LET key_str == pfx \o key
        r == RedisSet(st, key_str, v, ttl, f)
        cmds == <<Cmd("SET", key_str, r.e)>>
    IN  IF r.e # "ok" THEN Res(r.st, cmds, Wrap("RedisSetStr"))
        ELSE Res(r.st, cmds, NoErr)

GetStrCall(st, pfx, key, f) ==
    LET key_str == pfx \o key
        r == RedisGet(st, key_str, f)
        cmds == <<Cmd("GET", key_str, r.e)>>
    IN  IF r.e # "ok"
        THEN (IF r.e = "nil" THEN Res(r.st, cmds, ErrNotFound)
              ELSE Res(r.st, cmds, Wrap("RedisGetStr")))
        ELSE [Res(r.st, cmds, NoErr) EXCEPT !.s = r.s]

DelCall(st, pfx, key, f) ==
    LET key_str == pfx \o key
        r == RedisDel(st, key_str, f)
        cmds == <<Cmd("DEL", key_str, r.e)>>
    IN  IF r.e # "ok" THEN Res(r.st, cmds, Wrap("RedisDel"))
        ELSE Res(r.st, cmds, NoErr)

TTLCall(st, pfx, key, f) ==
    LET key_str == pfx \o key
        r == RedisTTL(st, key_str, f)
        cmds == <<Cmd("TTL", key_str, r.e)>>
    IN  IF r.e # "ok"
        THEN (IF r.e = "nil" THEN Res(r.st, cmds, ErrNotFound)
              ELSE Res(r.st, cmds, Wrap("RedisTTL")))
        ELSE [Res(r.st, cmds, NoErr) EXCEPT !.n = r.n]

\* ---- sets
SAddCall(st, pfx, key, members, f) ==
    LET key_str == pfx \o key
        r == RedisSAdd(st, key_str, members, f)
        cmds == <<Cmd("SADD", key_str, r.e)>>
    IN  IF r.e # "ok" THEN Res(r.st, cmds, Wrap("RedisSAdd"))
        ELSE Res(r.st, cmds, NoErr)

\* SCard and SMembers return the command's Val(): the zero value on any error.
SCardCall(st, pfx, key, f) ==
    LET key_str == pfx \o key
        r == RedisSCard(st, key_str, f)
        cmds == <<Cmd("SCARD", key_str, r.e)>>
    IN  [Res(r.st, cmds, NoErr) EXCEPT !.n = r.n]

SRemCall(st, pfx, key, members, f) ==
    LET key_str == pfx \o key
        r == RedisSRem(st, key_str, members, f)
        cmds == <<Cmd("SREM", key_str, r.e)>>
    IN  IF r.e # "ok" THEN Res(r.st, cmds, Wrap("RedisSRemove"))
        ELSE Res(r.st, cmds, NoErr)

SIsMemberCall(st, pfx, key, member, f) ==
    LET key_str == pfx \o key
        r == RedisSIsMember(st, key_str, member, f)
        cmds == <<Cmd("SISMEMBER", key_str, r.e)>>
    IN  IF r.e # "ok" THEN Res(r.st, cmds, Wrap("RedisSHas"))
        ELSE [Res(r.st, cmds, NoErr) EXCEPT !.b = r.b]

SMembersCall(st, pfx, key, f) ==
    LET key_str == pfx \o key
        r == RedisSMembers(st, key_str, f)
        cmds == <<Cmd("SMEMBERS", key_str, r.e)>>
    IN  [Res(r.st, cmds, NoErr) EXCEPT !.c = r.c]

\* ---- counters
IncrCall(st, pfx, key, f) ==
    LET key_str == pfx \o key
        r == RedisIncrBy(st, key_str, 1, f)
        cmds == <<Cmd("INCR", key_str, r.e)>>
    IN  IF r.e # "ok" THEN Res(r.st, cmds, Wrap("RedisIncr"))
        ELSE [Res(r.st, cmds, NoErr) EXCEPT !.n = r.n]

\* A variant of IncrEx that returns the Expire error instead of printing it.
IncrExCallPropagate(st, pfx, key, ttl, f, f2) ==
    LET key_str == pfx \o key
        r == RedisIncrBy(st, key_str, 1, f)
        cmds == <<Cmd("INCR", key_str, r.e)>>
    IN  IF r.e # "ok" THEN Res(r.st, cmds, Wrap("RedisIncr"))
        ELSE IF ttl > 0
             THEN LET x == ExpireCall(r.st, pfx, key, ttl, f2)
                  IN  IF x.err # NoErr THEN Res(x.st, cmds \o x.sent, x.err)
                      ELSE [Res(x.st, cmds \o x.sent, NoErr) EXCEPT !.n = r.n]
             ELSE [Res(r.st, cmds, NoErr) EXCEPT !.n = r.n]

\* IncrEx: the Expire it calls gets the caller's key, and its error is only printed.
IncrExCall(st, pfx, key, ttl, f, f2) ==
    LET key_str == pfx \o key
        r == RedisIncrBy(st, key_str, 1, f)
        cmds == <<Cmd("INCR", key_str, r.e)>>
    IN  IF r.e # "ok" THEN Res(r.st, cmds, Wrap("RedisIncr"))
        ELSE IF ttl > 0
             THEN LET x == ExpireCall(r.st, pfx, key, ttl, f2)
                  IN  [Res(x.st, cmds \o x.sent, NoErr) EXCEPT !.n = r.n]
             ELSE [Res(r.st, cmds, NoErr) EXCEPT !.n = r.n]

DecrCall(st, pfx, key, f) ==
    LET key_str == pfx \o key
        r == RedisIncrBy(st, key_str, 0 - 1, f)
        cmds == <<Cmd("DECR", key_str, r.e)>>
    IN  IF r.e # "ok" THEN Res(r.st, cmds, Wrap("RedisDecr"))
        ELSE [Res(r.st, cmds, NoErr) EXCEPT !.n = r.n]

DecrExCall(st, pfx, key, ttl, f, f2) ==
    LET key_str == pfx \o key
        r == RedisIncrBy(st, key_str, 0 - 1, f)
        cmds == <<Cmd("DECR", key_str, r.e)>>
    IN  IF r.e # "ok" THEN Res(r.st, cmds, Wrap("RedisDecr"))
        ELSE IF ttl > 0
             THEN LET x == ExpireCall(r.st, pfx, key, ttl, f2)
                  IN  [Res(x.st, cmds \o x.sent, NoErr) EXCEPT !.n = r.n]
             ELSE [Res(r.st, cmds, NoErr) EXCEPT !.n = r.n]

\* ---- bloom filters
BFReserveCall(st, pfx, key, f) ==
    LET key_str == pfx \o key
        r == RedisBFReserve(st, key_str, f)
        cmds == <<Cmd("BF.RESERVE", key_str, r.e)>>
    IN  IF r.e # "ok" THEN Res(r.st, cmds, Wrap("RedisBFReserve"))
        ELSE Res(r.st, cmds, NoErr)

BFAddCall(st, pfx, key, member, f) ==
    LET key_str == pfx \o key
        r == RedisBFMAdd(st, key_str, {member}, f)
        cmds == <<Cmd("BF.ADD", key_str, r.e)>>
    IN  IF r.e # "ok" THEN Res(r.st, cmds, Wrap("RedisBFAdd"))
        ELSE Res(r.st, cmds, NoErr)

BFMAddCall(st, pfx, key, members, f) ==
    LET key_str == pfx \o key
        r == RedisBFMAdd(st, key_str, members, f)
        cmds == <<Cmd("BF.MADD", key_str, r.e)>>
    IN  IF r.e # "ok" THEN Res(r.st, cmds, Wrap("RedisBFMAdd"))
        ELSE Res(r.st, cmds, NoErr)

BFExistsCall(st, pfx, key, member, f) ==
    LET key_str == pfx \o key
        r == RedisBFMExists(st, key_str, {member}, f)
        cmds == <<Cmd("BF.EXISTS", key_str, r.e)>>
    IN  IF r.e # "ok" THEN Res(r.st, cmds, Wrap("RedisBFExists"))
        ELSE [Res(r.st, cmds, NoErr) EXCEPT !.b = r.b]

BFMExistsCall(st, pfx, key, members, f) ==
    LET key_str == pfx \o key
        r == RedisBFMExists(st, key_str, members, f)
        cmds == <<Cmd("BF.MEXISTS", key_str, r.e)>>
    IN  IF r.e # "ok" THEN Res(r.st, cmds, Wrap("RedisBFMExists"))
        ELSE [Res(r.st, cmds, NoErr) EXCEPT !.c = r.c]

\* ---- hashes
HIncrByCall(st, pfx, key, field, value, f) ==
    LET key_str == pfx \o key
        r == RedisHIncrBy(st, key_str, field, value, f)
        cmds == <<Cmd("HINCRBY", key_str, r.e)>>
    IN  IF r.e # "ok" THEN Res(r.st, cmds, Wrap("RedisHIncrBy"))
        ELSE [Res(r.st, cmds, NoErr) EXCEPT !.n = r.n]

HGetCall(st, pfx, key, field, f) ==
    LET key_str == pfx \o key
        r == RedisHGet(st, key_str, field, f)
        cmds == <<Cmd("HGET", key_str, r.e)>>
    IN  IF r.e # "ok"
        THEN (IF r.e = "nil" THEN Res(r.st, cmds, ErrNotFound)
              ELSE Res(r.st, cmds, Wrap("RedisHGet")))
        ELSE [Res(r.st, cmds, NoErr) EXCEPT !.s = r.s]

\* HGetI: HGet's error as it is, then strconv.ParseInt's result and error as
\* they are.
HGetICall(st, pfx, key, field, f) ==
    LET g == HGetCall(st, pfx, key, field, f)
    IN  IF g.err # NoErr THEN [g EXCEPT !.s = Empty]
        ELSE IF ~ParseIntOk(g.s) THEN [g EXCEPT !.s = Empty, !.err = Unwrapped]
        ELSE [g EXCEPT !.s = Empty, !.n = ParseInt(g.s)]

HSetCall(st, pfx, key, field, value, f) ==
    LET key_str == pfx \o key
        r == RedisHSet(st, key_str, field, value, f)
        cmds == <<Cmd("HSET", key_str, r.e)>>
    IN  IF r.e # "ok" THEN Res(r.st, cmds, Wrap("RedisHSet"))
        ELSE Res(r.st, cmds, NoErr)

HGetAllCall(st, pfx, key, f) ==
    LET key_str == pfx \o key
        r == RedisHGetAll(st, key_str, f)
        cmds == <<Cmd("HGETALL", key_str, r.e)>>
    IN  IF r.e # "ok"
        THEN (IF r.e = "nil" THEN Res(r.st, cmds, ErrNotFound)
              ELSE Res(r.st, cmds, Wrap("RedisHGetAll")))
        ELSE [Res(r.st, cmds, NoErr) EXCEPT !.c = r.c]

HDelCall(st, pfx, key, field, f) ==
    LET key_str == pfx \o key
        r == RedisHDel(st, key_str, field, f)
        cmds == <<Cmd("HDEL", key_str, r.e)>>
    IN  IF r.e # "ok" THEN Res(r.st, cmds, Wrap("RedisHDel"))
        ELSE Res(r.st, cmds, NoErr)

HKeysCall(st, pfx, key, f) ==
    LET key_str == pfx \o key
        r == RedisHKeys(st, key_str, f)
        cmds == <<Cmd("HKEYS", key_str, r.e)>>
    IN  IF r.e # "ok"
        THEN (IF r.e = "nil" THEN Res(r.st, cmds, ErrNotFound)
              ELSE Res(r.st, cmds, Wrap("RedisHKeys")))
        ELSE [Res(r.st, cmds, NoErr) EXCEPT !.c = r.c]

HExistsCall(st, pfx, key, field, f) ==
    LET key_str == pfx \o key
        r == RedisHExists(st, key_str, field, f)
        cmds == <<Cmd("HEXISTS", key_str, r.e)>>
    IN  IF r.e # "ok" THEN Res(r.st, cmds, Wrap("RedisHExists"))
        ELSE [Res(r.st, cmds, NoErr) EXCEPT !.b = r.b]

HLenCall(st, pfx, key, f) ==
    LET key_str == pfx \o key
        r == RedisHLen(st, key_str, f)
        cmds == <<Cmd("HLEN", key_str, r.e)>>
    IN  IF r.e # "ok"
        THEN (IF r.e = "nil" THEN Res(r.st, cmds, ErrNotFound)
              ELSE Res(r.st, cmds, Wrap("RedisHLen")))
        ELSE [Res(r.st, cmds, NoErr) EXCEPT !.n = r.n]

HSetNXCall(st, pfx, key, field, value, f) ==
    LET key_str == pfx \o key
        r == RedisHSetNX(st, key_str, field, value, f)
        cmds == <<Cmd("HSETNX", key_str, r.e)>>
    IN  IF r.e # "ok" THEN Res(r.st, cmds, Wrap("RedisHSetNX"))
        ELSE [Res(r.st, cmds, NoErr) EXCEPT !.b = r.b]

\* A variant of HSetNXEx that sets the time whether or not the field was written.
HSetNXExCallAlways(st, pfx, key, field, value, ttl, f, f2) ==
    LET key_str == pfx \o key
        r == RedisHSetNX(st, key_str, field, value, f)
        cmds == <<Cmd("HSETNX", key_str, r.e)>>
    IN  IF r.e # "ok" THEN Res(r.st, cmds, Wrap("RedisHSetNX"))
        ELSE IF ttl > 0
             THEN LET x == ExpireCall(r.st, pfx, key, ttl, f2)
                  IN  [Res(x.st, cmds \o x.sent, NoErr) EXCEPT !.b = r.b]
             ELSE [Res(r.st, cmds, NoErr) EXCEPT !.b = r.b]

\* HSetNXEx: the time is set only when the field was written.
HSetNXExCall(st, pfx, key, field, value, ttl, f, f2) ==
    LET key_str == pfx \o key
        r == RedisHSetNX(st, key_str, field, value, f)
        cmds == <<Cmd("HSETNX", key_str, r.e)>>
    IN  IF r.e # "ok" THEN Res(r.st, cmds, Wrap("RedisHSetNX"))
        ELSE IF r.b /\ ttl > 0
             THEN LET x == ExpireCall(r.st, pfx, key, ttl, f2)
                  IN  [Res(x.st, cmds \o x.sent, NoErr) EXCEPT !.b = r.b]
             ELSE [Res(r.st, cmds, NoErr) EXCEPT !.b = r.b]

HSetExCall(st, pfx, key, field, value, ttl, f, f2) ==
    LET key_str == pfx \o key
        r == RedisHSet(st, key_str, field, value, f)
        cmds == <<Cmd("HSET", key_str, r.e)>>
    IN  IF r.e # "ok" THEN Res(r.st, cmds, Wrap("RedisHSetEx"))
        ELSE IF ttl > 0
             THEN LET x == ExpireCall(r.st, pfx, key, ttl, f2)
                  IN  Res(x.st, cmds \o x.sent, NoErr)
             ELSE Res(r.st, cmds, NoErr)

\* ---- sorted sets
ZAddMemberCall(st, pfx, key, member, score, f) ==
    LET key_str == pfx \o key
        r == RedisZAdd(st, key_str, member, score, f)
        cmds == <<Cmd("ZADD", key_str, r.e)>>
    IN  IF r.e # "ok" THEN Res(r.st, cmds, Wrap("RedisZAddMember"))
        ELSE Res(r.st, cmds, NoErr)

ZRangeWithScoresCall(st, pfx, key, start, stop, f) ==
    LET key_str == pfx \o key
        r == RedisZRangeWithScores(st, key_str, start, stop, f)
        cmds == <<Cmd("ZRANGE", key_str, r.e)>>
    IN  IF r.e # "ok" THEN Res(r.st, cmds, Wrap("RedisZRangeWithScore"))
        ELSE [Res(r.st, cmds, NoErr) EXCEPT !.c = r.c]

\* ------------------------------------------------------------ operations
NoVal == Null
NoArg == Empty

\* One public call: the store and the commands it leaves, and its record.
\* (The result is bound once, so the method is evaluated once per call.)
Step(op, key, ttl, v, arg, res) ==
    \E r \in {res} :
    /\ store' = r.st
    /\ sent' = r.sent
    /\ last' = [op |-> op, key |-> key, ttl |-> ttl, v |-> v, arg |-> arg,
                b |-> r.b, s |-> r.s, n |-> r.n, c |-> r.c, out |-> r.out, err |-> r.err]
    /\ UNCHANGED <<cfg, prefix>>

\* The state after NewClient: the prefix resolved, the store empty, no call yet.
Init ==
    /\ cfg \in CfgPrefixes
    /\ prefix = NewClientPrefix(cfg)
    /\ store = [k \in AllStoreKeys |-> Absent]
    /\ sent = <<>>
    /\ last = [op |-> "NewClient", key |-> Empty, ttl |-> 0, v |-> NoVal, arg |-> NoArg,
               b |-> FALSE, s |-> Empty, n |-> 0, c |-> {}, out |-> Null, err |-> NoErr]
    /\ step = "init"

Get(key) ==
    /\ step' = "call"
    /\ \E f \in BOOLEAN : Step("Get", key, 0, NoVal, NoArg, GetCall(store, prefix, key, f))

Expire(key) ==
    /\ step' = "call"
    /\ \E ttl \in TTLs, f \in BOOLEAN :
        Step("Expire", key, ttl, NoVal, NoArg, ExpireCall(store, prefix, key, ttl, f))

SetEx(key) ==
    /\ step' = "call"
    /\ \E v \in Values, ttl \in TTLs, f \in BOOLEAN :
        Step("SetEx", key, ttl, v, NoArg, SetExCall(store, prefix, key, v, ttl, f))

SetNXEx(key) ==
    /\ step' = "call"
    /\ \E v \in Values, ttl \in TTLs, f \in BOOLEAN :
        Step("SetNXEx", key, ttl, v, NoArg, SetNXExCall(store, prefix, key, v, ttl, f))

Set(key) ==
    /\ step' = "call"
    /\ \E v \in Values, ttl \in TTLs, f \in BOOLEAN :
        Step("Set", key, ttl, v, NoArg, SetCall(store, prefix, key, v, ttl, f))

SetNX(key) ==
    /\ step' = "call"
    /\ \E v \in Values, ttl \in TTLs, f \in BOOLEAN :
        Step("SetNX", key, ttl, v, NoArg, SetNXCall(store, prefix, key, v, ttl, f))

SetNXStr(key) ==
    /\ step' = "call"
    /\ \E v \in RawStrs, ttl \in TTLs, f \in BOOLEAN :
        Step("SetNXStr", key, ttl, NoVal, v, SetNXStrCall(store, prefix, key, v, ttl, f))

SetStr(key) ==
    /\ step' = "call"
    /\ \E v \in RawStrs, ttl \in TTLs, f \in BOOLEAN :
        Step("SetStr", key, ttl, NoVal, v, SetStrCall(store, prefix, key, v, ttl, f))

GetStr(key) ==
    /\ step' = "call"
    /\ \E f \in BOOLEAN : Step("GetStr", key, 0, NoVal, NoArg, GetStrCall(store, prefix, key, f))

Del(key) ==
    /\ step' = "call"
    /\ \E f \in BOOLEAN : Step("Del", key, 0, NoVal, NoArg, DelCall(store, prefix, key, f))

TTL(key) ==
    /\ step' = "call"
    /\ \E f \in BOOLEAN : Step("TTL", key, 0, NoVal, NoArg, TTLCall(store, prefix, key, f))

SAdd(key) ==
    /\ step' = "call"
    /\ \E ms \in (SUBSET Members) \ {{}}, f \in BOOLEAN :
        Step("SAdd", key, 0, NoVal, NoArg, SAddCall(store, prefix, key, ms, f))

SCard(key) ==
    /\ step' = "call"
    /\ \E f \in BOOLEAN : Step("SCard", key, 0, NoVal, NoArg, SCardCall(store, prefix, key, f))

SRem(key) ==
    /\ step' = "call"
    /\ \E ms \in (SUBSET Members) \ {{}}, f \in BOOLEAN :
        Step("SRem", key, 0, NoVal, NoArg, SRemCall(store, prefix, key, ms, f))

SIsMember(key) ==
    /\ step' = "call"
    /\ \E m \in Members, f \in BOOLEAN :
        Step("SIsMember", key, 0, NoVal, NoArg, SIsMemberCall(store, prefix, key, m, f))

SMembers(key) ==
    /\ step' = "call"
    /\ \E f \in BOOLEAN :
        Step("SMembers", key, 0, NoVal, NoArg, SMembersCall(store, prefix, key, f))

Incr(key) ==
    /\ step' = "call"
    /\ Room(store, prefix \o key, 1)
    /\ \E f \in BOOLEAN : Step("Incr", key, 0, NoVal, NoArg, IncrCall(store, prefix, key, f))

IncrEx(key) ==
    /\ step' = "call"
    /\ Room(store, prefix \o key, 1)
    /\ \E ttl \in TTLs, f \in BOOLEAN : \E f2 \in Fail2(ttl) :
        Step("IncrEx", key, ttl, NoVal, NoArg, IncrExCall(store, prefix, key, ttl, f, f2))

Decr(key) ==
    /\ step' = "call"
    /\ Room(store, prefix \o key, 0 - 1)
    /\ \E f \in BOOLEAN : Step("Decr", key, 0, NoVal, NoArg, DecrCall(store, prefix, key, f))

DecrEx(key) ==
    /\ step' = "call"
    /\ Room(store, prefix \o key, 0 - 1)
    /\ \E ttl \in TTLs, f \in BOOLEAN : \E f2 \in Fail2(ttl) :
        Step("DecrEx", key, ttl, NoVal, NoArg, DecrExCall(store, prefix, key, ttl, f, f2))

BFReserve(key) ==
    /\ step' = "call"
    /\ \E f \in BOOLEAN :
        Step("BFReserve", key, 0, NoVal, NoArg, BFReserveCall(store, prefix, key, f))

BFAdd(key) ==
    /\ step' = "call"
    /\ \E m \in Members, f \in BOOLEAN :
        Step("BFAdd", key, 0, NoVal, NoArg, BFAddCall(store, prefix, key, m, f))

BFMAdd(key) ==
    /\ step' = "call"
    /\ \E ms \in (SUBSET Members) \ {{}}, f \in BOOLEAN :
        Step("BFMAdd", key, 0, NoVal, NoArg, BFMAddCall(store, prefix, key, ms, f))

BFExists(key) ==
    /\ step' = "call"
    /\ \E m \in Members, f \in BOOLEAN :
        Step("BFExists", key, 0, NoVal, NoArg, BFExistsCall(store, prefix, key, m, f))

BFMExists(key) ==
    /\ step' = "call"
    /\ \E ms \in (SUBSET Members) \ {{}}, f \in BOOLEAN :
        Step("BFMExists", key, 0, NoVal, NoArg, BFMExistsCall(store, prefix, key, ms, f))

HIncrBy(key) ==
    /\ step' = "call"
    /\ \E fld \in Fields, f \in BOOLEAN :
        /\ FieldRoom(store, prefix \o key, fld, Delta)
        /\ Step("HIncrBy", key, 0, NoVal, NoArg,
                HIncrByCall(store, prefix, key, fld, Delta, f))

HGet(key) ==
    /\ step' = "call"
    /\ \E fld \in Fields, f \in BOOLEAN :
        Step("HGet", key, 0, NoVal, NoArg, HGetCall(store, prefix, key, fld, f))

HGetI(key) ==
    /\ step' = "call"
    /\ \E fld \in Fields, f \in BOOLEAN :
        Step("HGetI", key, 0, NoVal, NoArg, HGetICall(store, prefix, key, fld, f))

HSet(key) ==
    /\ step' = "call"
    /\ \E fld \in Fields, v \in FieldVals, f \in BOOLEAN :
        Step("HSet", key, 0, NoVal, v, HSetCall(store, prefix, key, fld, v, f))

HGetAll(key) ==
    /\ step' = "call"
    /\ \E f \in BOOLEAN :
        Step("HGetAll", key, 0, NoVal, NoArg, HGetAllCall(store, prefix, key, f))

HDel(key) ==
    /\ step' = "call"
    /\ \E fld \in Fields, f \in BOOLEAN :
        Step("HDel", key, 0, NoVal, NoArg, HDelCall(store, prefix, key, fld, f))

HKeys(key) ==
    /\ step' = "call"
    /\ \E f \in BOOLEAN : Step("HKeys", key, 0, NoVal, NoArg, HKeysCall(store, prefix, key, f))

HExists(key) ==
    /\ step' = "call"
    /\ \E fld \in Fields, f \in BOOLEAN :
        Step("HExists", key, 0, NoVal, NoArg, HExistsCall(store, prefix, key, fld, f))

HLen(key) ==
    /\ step' = "call"
    /\ \E f \in BOOLEAN : Step("HLen", key, 0, NoVal, NoArg, HLenCall(store, prefix, key, f))

HSetNX(key) ==
    /\ step' = "call"
    /\ \E fld \in Fields, v \in FieldVals, f \in BOOLEAN :
        Step("HSetNX", key, 0, NoVal, v, HSetNXCall(store, prefix, key, fld, v, f))

HSetNXEx(key) ==
    /\ step' = "call"
    /\ \E fld \in Fields, v \in FieldVals, ttl \in TTLs, f \in BOOLEAN : \E f2 \in Fail2(ttl) :
        Step("HSetNXEx", key, ttl, NoVal, v,
             HSetNXExCall(store, prefix, key, fld, v, ttl, f, f2))

HSetEx(key) ==
    /\ step' = "call"
    /\ \E fld \in Fields, v \in FieldVals, ttl \in TTLs, f \in BOOLEAN : \E f2 \in Fail2(ttl) :
        Step("HSetEx", key, ttl, NoVal, v,
             HSetExCall(store, prefix, key, fld, v, ttl, f, f2))

ZAddMember(key) ==
    /\ step' = "call"
    /\ \E m \in Members, f \in BOOLEAN :
        Step("ZAddMember", key, 0, NoVal, NoArg,
             ZAddMemberCall(store, prefix, key, m, Score, f))

ZRangeWithScores(key) ==
    /\ step' = "call"
    /\ \E rg \in ZRanges, f \in BOOLEAN :
        Step("ZRangeWithScores", key, 0, NoVal, NoArg,
             ZRangeWithScoresCall(store, prefix, key, rg[1], rg[2], f))

\* The store's clock: a second passes, and a key whose time runs out is gone.
Tick ==
    /\ \E k \in AllStoreKeys : store[k].ttl > 0
    /\ store' = [k \in AllStoreKeys |->
                    IF store[k].ttl = 0 THEN store[k]
                    ELSE IF store[k].ttl = 1 THEN Absent
                    ELSE [store[k] EXCEPT !.ttl = @ - 1]]
    /\ step' = "tick"
    /\ UNCHANGED <<cfg, prefix, sent, last>>

Next ==
    \/ \E key \in Keys : Get(key)
    \/ \E key \in Keys : Expire(key)
    \/ \E key \in Keys : SetEx(key)
    \/ \E key \in Keys : SetNXEx(key)
    \/ \E key \in Keys : Set(key)
    \/ \E key \in Keys : SetNX(key)
    \/ \E key \in Keys : SetNXStr(key)
    \/ \E key \in Keys : SetStr(key)
    \/ \E key \in Keys : GetStr(key)
    \/ \E key \in Keys : Del(key)
    \/ \E key \in Keys : TTL(key)
    \/ \E key \in Keys : SAdd(key)
    \/ \E key \in Keys : SCard(key)
    \/ \E key \in Keys : SRem(key)
    \/ \E key \in Keys : SIsMember(key)
    \/ \E key \in Keys : SMembers(key)
    \/ \E key \in Keys : Incr(key)
    \/ \E key \in Keys : IncrEx(key)
    \/ \E key \in Keys : Decr(key)
    \/ \E key \in Keys : DecrEx(key)
    \/ \E key \in Keys : BFReserve(key)
    \/ \E key \in Keys : BFAdd(key)
    \/ \E key \in Keys : BFMAdd(key)
    \/ \E key \in Keys : BFExists(key)
    \/ \E key \in Keys : BFMExists(key)
    \/ \E key \in Keys : HIncrBy(key)
    \/ \E key \in Keys : HGet(key)
    \/ \E key \in Keys : HGetI(key)
    \/ \E key \in Keys : HSet(key)
    \/ \E key \in Keys : HGetAll(key)
    \/ \E key \in Keys : HDel(key)
    \/ \E key \in Keys : HKeys(key)
    \/ \E key \in Keys : HExists(key)
    \/ \E key \in Keys : HLen(key)
    \/ \E key \in Keys : HSetNX(key)
    \/ \E key \in Keys : HSetNXEx(key)
    \/ \E key \in Keys : HSetEx(key)
    \/ \E key \in Keys : ZAddMember(key)
    \/ \E key \in Keys : ZRangeWithScores(key)
    \/ Tick

Spec == Init /\ [][Next]_vars

\* ------------------------------------------------------------ properties
\* The store key of the last call's key, and the key the documentation promises.
KeyStr == prefix \o last.key
Prefixed(key) == IF cfg # Empty THEN cfg \o Sep \o key ELSE key
PrefixedKeepSep(key) ==
    IF cfg = Empty THEN key
    ELSE IF EndsWithSep(cfg) THEN cfg \o key
    ELSE cfg \o Sep \o key

Called == step = "call"
\* The i-th command of the last call reached the store and ran.
Ran(cmds, i) == Len(cmds) >= i /\ cmds[i].e # "err"

SetOps == {"Set", "SetEx"}
SetNXOps == {"SetNX", "SetNXEx"}
ExOps == {"IncrEx", "DecrEx", "HSetEx", "HSetNXEx"}

\* C1: with a non-empty prefix, every command of every public operation names
\* prefix + ":" + key, and none names the caller's bare key.
C1_EveryCommandPrefixed ==
    (Called /\ cfg # Empty) =>
        \A i \in 1..Len(sent) :
            sent[i].key = cfg \o Sep \o last.key /\ sent[i].key # last.key

\* C2: after IncrEx(k, ttl), ttl > 0, whose Expire reported success, the TTL(k)
\* that follows returns a positive time, whatever the prefix.
C2_IncrExLeavesPositiveTTL ==
    [][(/\ Called /\ last.op = "IncrEx" /\ last.ttl > 0 /\ last.err = NoErr
        /\ Len(sent) = 2 /\ sent[2].cmd = "EXPIRE" /\ sent[2].e = "ok"
        /\ step' = "call" /\ last'.op = "TTL" /\ last'.key = last.key
        /\ Ran(sent', 1))
       => (last'.err = NoErr /\ last'.n > 0)]_vars

\* C3 (as stated): a command's key is prefix + ":" + key for a prefix that does
\* not end with ":", prefix + key for one that does, and key for no prefix.
C3_KeyKeepsSingleSeparator ==
    Called => \A i \in 1..Len(sent) :
        sent[i].cmd # "EXPIRE" => sent[i].key = PrefixedKeepSep(last.key)

\* C3 (amended): every command but EXPIRE names prefix + ":" + key for every
\* non-empty prefix, also one that already ends with ":", and the key unchanged
\* for no prefix; EXPIRE names the key as the caller gave it.
C3_KeyAlwaysGetsSeparator ==
    Called => \A i \in 1..Len(sent) :
        IF sent[i].cmd = "EXPIRE" THEN sent[i].key = last.key
        ELSE sent[i].key = Prefixed(last.key)

\* C3 witness: a Get under a prefix that ends with ":" sent a key with two separators.
C3_Witness ==
    /\ Called /\ EndsWithSep(cfg) /\ last.op = "Get" /\ Len(sent) = 1
    /\ sent[1].key = cfg \o Sep \o last.key
    /\ sent[1].key # cfg \o last.key

\* C4: SetNX / SetNXEx on an absent key writes and returns true (SetNXEx with
\* the encoded payload); the next SetNX / SetNXEx of the key returns false, no
\* error and no payload, leaves the store as it was, and Get still decodes to
\* the first value.
C4_FirstCall ==
    (/\ step' = "call" /\ last'.op \in SetNXOps
     /\ ~Present(store, prefix \o last'.key) /\ Len(sent') = 1 /\ Ran(sent', 1))
    => /\ last'.b /\ last'.err = NoErr
       /\ last'.op = "SetNXEx" => last'.s = Marshal(last'.v)
       /\ store'[prefix \o last'.key].s = Marshal(last'.v)

C4_SecondCall ==
    (/\ last.op \in SetNXOps /\ last.b /\ last.err = NoErr
     /\ step' = "call" /\ last'.op \in SetNXOps /\ last'.key = last.key
     /\ Present(store, KeyStr) /\ Len(sent') = 1 /\ Ran(sent', 1))
    => /\ ~last'.b /\ last'.err = NoErr /\ last'.s = Empty
       /\ store' = store
       /\ GetCall(store', prefix, last.key, FALSE).err = NoErr
       /\ GetCall(store', prefix, last.key, FALSE).out = last.v

\* C4: every step is a first call that writes or a second call that is refused,
\* as above.
C4_SetNXDoesNotOverwrite == [][C4_FirstCall /\ C4_SecondCall]_vars

\* C4 witness: a SetNX of 0 was refused on a key that holds the encoded "".
C4_Witness ==
    /\ Called /\ last.op \in SetNXOps /\ ~last.b /\ last.err = NoErr
    /\ Ran(sent, 1) /\ last.v = NumV(0)
    /\ store[KeyStr].s = Marshal(StrV(Empty))

\* C5: Set(k, v, ttl) without error, then Get(k) while the key lives: no error,
\* the value v, from the store key Set wrote.
C5_SetThenGet ==
    [][(/\ last.op \in SetOps /\ last.err = NoErr
        /\ step' = "call" /\ last'.op = "Get" /\ last'.key = last.key
        /\ Present(store, KeyStr) /\ ~(Len(sent') = 1 /\ sent'[1].e = "err"))
       => /\ last'.err = NoErr /\ last'.out = last.v
          /\ Len(sent) = 1 /\ Len(sent') = 1 /\ sent'[1].key = sent[1].key]_vars

\* C5 witness: under a prefix, Get decoded the empty string from a key that
\* still has time to live.
C5_Witness ==
    /\ Called /\ last.op = "Get" /\ last.err = NoErr /\ last.out = StrV(Empty)
    /\ cfg # Empty /\ store[KeyStr].ttl > 0

\* C6: TTL returns NotFound whenever the key is absent, and a time with no
\* error only for a key that exists.
C6_TTLNotFoundWhenAbsent ==
    (Called /\ last.op = "TTL" /\ Ran(sent, 1)) =>
        /\ ~Present(store, KeyStr) => last.err = ErrNotFound
        /\ last.err = NoErr => Present(store, KeyStr)

\* C7: no public operation returns an error that is neither NotFound nor
\* wrapped (HGetI's integer parse and the *Ex variants included).
C7_EveryErrorWrapped ==
    Called => last.err.kind \in {"nil", "NotFound", "wrapped"}

\* C8: in IncrEx, DecrEx, HSetEx and HSetNXEx, when the primary command
\* succeeds and the refresh fails, the call returns the primary result and no
\* error, and the primary write stays in the store.
C8_RefreshFailureSwallowed ==
    (/\ Called /\ last.op \in ExOps
     /\ Len(sent) = 2 /\ sent[1].e = "ok" /\ sent[2].e = "err")
    => /\ last.err = NoErr
       /\ last.op \in {"IncrEx", "DecrEx"} =>
            /\ store[KeyStr].kind = "string"
            /\ store[KeyStr].s = Itoa(last.n)
       /\ last.op \in {"HSetEx", "HSetNXEx"} =>
            /\ store[KeyStr].kind = "hash"
            /\ \E fld \in Fields : <<fld, last.arg>> \in store[KeyStr].h
       /\ last.op = "HSetNXEx" => last.b

\* C8 witness: IncrEx returned 1 and no error though its EXPIRE failed, and
\* the counter has no expiration.
C8_Witness ==
    /\ Called /\ last.op = "IncrEx" /\ Len(sent) = 2 /\ sent[2].e = "err"
    /\ last.n = 1 /\ last.err = NoErr /\ store[KeyStr].ttl = 0

\* C9 (as stated): no public call results in two or more store commands.
C9_OneCommandPerCall == Called => Len(sent) <= 1

\* C9 (amended): a call sends one command, and none after a failure, except
\* that IncrEx, DecrEx and HSetEx with ttl > 0 whose primary command succeeded,
\* and HSetNXEx with ttl > 0 that wrote the field, send a second one, EXPIRE;
\* a Set-family call whose value cannot be encoded sends none.
C9_OneCommandOrPrimaryThenExpire ==
    Called =>
        /\ Len(sent) <= 2
        /\ \A i \in 1..(Len(sent) - 1) : sent[i].e = "ok"
        /\ Len(sent) = 0 <=>
             (last.op \in SetOps \cup SetNXOps /\ ~MarshalOk(last.v))
        /\ Len(sent) = 2 <=>
             /\ last.op \in ExOps /\ last.ttl > 0 /\ sent[1].e = "ok"
             /\ last.op = "HSetNXEx" => last.b
        /\ Len(sent) = 2 => sent[1].cmd # "EXPIRE" /\ sent[2].cmd = "EXPIRE"

\* C9 witness: HSetNXEx sent HSETNX and then EXPIRE.
C9_Witness ==
    /\ Called /\ last.op = "HSetNXEx" /\ Len(sent) = 2
    /\ sent[1].cmd = "HSETNX" /\ sent[2].cmd = "EXPIRE"

\* C10: Get returns NotFound exactly when the key is absent or holds the
\* empty string; GetStr exactly when the key is absent, and "" with no error
\* for the empty string; they differ on presence only for the empty string.
HoldsEmpty(st, k) == st[k].kind = "string" /\ st[k].s = Empty

C10_GetAndGetStrNotFound ==
    /\ (Called /\ last.op = "Get") =>
          (last.err = ErrNotFound
             <=> (Ran(sent, 1) /\ (~Present(store, KeyStr) \/ HoldsEmpty(store, KeyStr))))
    /\ (Called /\ last.op = "GetStr") =>
          /\ last.err = ErrNotFound <=> (Ran(sent, 1) /\ ~Present(store, KeyStr))
          /\ (Ran(sent, 1) /\ HoldsEmpty(store, KeyStr))
                => (last.err = NoErr /\ last.s = Empty)
    /\ \A k \in Keys :
          ((GetCall(store, prefix, k, FALSE).err = ErrNotFound)
             # (GetStrCall(store, prefix, k, FALSE).err = ErrNotFound))
          <=> HoldsEmpty(store, prefix \o k)

\* C10 witness: Get returned NotFound for a key that holds the empty string.
C10_Witness ==
    /\ Called /\ last.op = "Get" /\ last.err = ErrNotFound /\ Ran(sent, 1)
    /\ HoldsEmpty(store, KeyStr)

====
